---- MODULE Spec2Model ----
(***************************************************************************)
(* State-machine model of src/bog.py: the BOG_API client class.            *)
(*                                                                         *)
(* One BOG_API object is modelled.  Every method of the class is one       *)
(* action; the HTTP transport (requests.get / requests.post) is an input   *)
(* of the action: each request the method issues consumes one response     *)
(* drawn from a small set.  A response is                                  *)
(*    "ok"   : r.ok is true and r.json() yields the documented body        *)
(*    "bad"  : r.ok is false (and the body holds none of the fields)       *)
(*    "junk" : r.ok is true but r.json() raises (body is not JSON)         *)
(*    "exc"  : requests.get/post itself raises (no response object)        *)
(*                                                                         *)
(* The variable `call` holds the record of the method call that has just   *)
(* finished (its arguments, the requests it issued with the responses it   *)
(* received, and how it ended); the caller then takes the step Return      *)
(* before it calls the next method.                                        *)
(***************************************************************************)
EXTENDS Integers, Sequences, FiniteSets, TLC

(* ------------------------------ bounds -------------------------------- *)
\* number of distinct tokens the /auth endpoint may hand out
NumTokens == 2
\* buoy ids are 1..NumIds
NumIds == 2
\* timestamps of series points are 1..MaxTime
MaxTime == 2

(* ------------------------- program constants -------------------------- *)
MAX_API_CALLS == 3

Tokens == 1..NumTokens
Ids == 1..NumIds
Times == 1..MaxTime
\* Python's None where a token is expected (self._token = None, str(None))
NoToken == 0
\* a request sent without an Authorization header
NoHeader == -1
\* a request that names no buoy
NoBuoy == 0

(* ------------------- how a method call can end ------------------------ *)
\* the method returned (possibly returning None)
Returned == "return"
\* bog.py:53  raise Exception('User authentication failed ...')
AuthenticationError == "Exception: User authentication failed"
\* bog.py:67  raise Exception('Buoy id list request failed ...')
ScopeFetchError == "Exception: Buoy id list request failed"
\* bog.py:79  raise Exception("Logout Failed")
LogoutError == "Exception: Logout Failed"
\* bog.py:94, 117, 146  assert ... in self.buoy_ids, "Buoy ... does not exist"
ScopeError == "AssertionError: Buoy does not exist"
\* bog.py:102  raise Exception('Current status request failed ...')
StatusFetchError == "Exception: Current status request failed"
\* bog.py:129  raise Exception('Historical data request failed ...')
HistoricalFetchError == "Exception: Historical data request failed"
\* bog.py:152  assert set(series).issubset(available_vars), "Variable(s) ..."
InvalidVariableError == "AssertionError: Variable(s) specified not available"
\* bog.py:180  assert buoy_ids, "Please include a list of buoy ids"
EmptyRequestError == "AssertionError: Please include a list of buoy ids"
\* the except-handlers of bog.py:67, 102, 129 format r.status_code; when
\* requests.get raised, r was never bound and the handler itself raises
UnboundLocalError == "UnboundLocalError: r referenced before assignment"
\* subscripting None (bog.py:118, 147, 155) or reduce() of an empty list (159)
TypeError == "TypeError"
\* r.json()["token"] of a body that is not the documented one (bog.py:48)
JsonError == "JSONDecodeError"
\* an exception of requests.post that get_token does not catch (bog.py:44)
TransportError == "requests.RequestException"
\* pandas: DataFrame of rows that are None, or no last_updated column
PandasError == "pandas error"

Range(s) == {s[i] : i \in 1..Len(s)}

\* F(v), with v evaluated once: the local variable of a method that holds
\* the result of a call
Bind(v, F(_)) == CHOOSE y \in {F(x) : x \in {v}} : TRUE

(* --------------------------- series data ------------------------------ *)
\* the variable names a buoy can advertise
Vars == {"wave_height", "wind_speed", "position_latitude"}

VarNo(var) == CASE var = "wave_height" -> 1
                [] var = "wind_speed" -> 2
                [] OTHER -> 3

\* the value the service reports for a variable at a time (never absent)
ValueOf(var, t) == 100 * VarNo(var) + t

\* pandas' NaN, the absent value of a table cell
NaN == -1

\* the points [[time, value], ...] of one variable, in ascending time
RECURSIVE Points(_, _)
Points(var, times) ==
  IF times = {} THEN <<>>
  ELSE LET t == CHOOSE x \in times : \A y \in times : x <= y
       IN <<<<t, ValueOf(var, t)>>>> \o Points(var, times \ {t})

\* the orders in which a JSON object can list the variables of `series`
VarOrders(series) ==
  {o \in [1..Cardinality(series) -> series] : Range(o) = series}

\* r.json()["series"]["series"] of GET /buoy/{id}/reports?series=a,b,c :
\* the requested variables in the order `order`, each with its points at
\* the timestamps times[var]
Payload(order, times) ==
  [i \in 1..Len(order) |-> [var |-> order[i],
                            points |-> Points(order[i], times[order[i]])]]

\* every payload the service can answer a request for `series` with
Payloads(series) ==
  {Payload(o, tm) : o \in VarOrders(series), tm \in [series -> SUBSET Times]}

\* one payload for `series`: the variables in the order of VarNo, wind_speed
\* sampled at time 1 only, the others at every time
SmallPayload(series) ==
  Payload(CHOOSE o \in VarOrders(series) :
            \A i, j \in 1..Len(o) : i < j => VarNo(o[i]) < VarNo(o[j]),
          [v \in series |-> IF v = "wind_speed" THEN {1} ELSE Times])

(* ----------------------------- responses ------------------------------ *)
Resp(kind) == [kind |-> kind, token |-> NoToken, ids |-> <<>>,
               avail |-> {}, data |-> <<>>]
RespBad == Resp("bad")
RespExc == Resp("exc")
RespJunk == Resp("junk")
Failures == {RespBad, RespExc, RespJunk}

\* POST /auth {type: login} -> {token}
LoginResps == {[Resp("ok") EXCEPT !.token = t] : t \in Tokens} \cup Failures

\* POST /auth {type: logout}
LogoutResps == {Resp("ok")} \cup Failures

\* the lists of buoy ids GET /user may return: duplicate-free lists over Ids
RECURSIVE ListsUpTo(_)
ListsUpTo(n) ==
  IF n = 0 THEN {<<>>}
  ELSE LET shorter == ListsUpTo(n - 1)
       IN shorter \cup {Append(l, b) : l \in {x \in shorter : Len(x) = n - 1},
                                        b \in Ids}
ScopeLists == {l \in ListsUpTo(NumIds) : Cardinality(Range(l)) = Len(l)}

\* GET /user -> {buoys: [ids]}
UserResps == {[Resp("ok") EXCEPT !.ids = l] : l \in ScopeLists} \cup Failures

\* GET /buoy/{id}/details -> {buoy_id, series: [names], summary: {...}}
StatusRespsOver(avails) == {[Resp("ok") EXCEPT !.avail = a] : a \in avails} \cup Failures
StatusResps == StatusRespsOver(SUBSET Vars)
SmallStatusResps == StatusRespsOver({Vars, {"wave_height"}})

\* GET /buoy/{id}/reports?series=... -> {series: {series: {var: [[t, v]]}}}
ReportsResps(series) ==
  {[Resp("ok") EXCEPT !.data = p] : p \in Payloads(series)} \cup Failures
SmallReportsResps(series) ==
  {[Resp("ok") EXCEPT !.data = SmallPayload(series)]} \cup Failures
\* the reports responses of a run: over every payload, or over one
ReportsRespsOver(every, series) ==
  IF every THEN ReportsResps(series) ELSE SmallReportsResps(series)

\* r.json() of an OK details response for buoy b
StatusBody(b, avail) ==
  [tag |-> "status", buoy_id |-> b, series |-> avail,
   summary |-> [latitude |-> b, longitude |-> 10 + b, last_updated |-> 20 + b]]

(* ------------------------- the request log ---------------------------- *)
\* one request issued by the object, with the response it received
Req(kind, buoy, auth, series, resp) ==
  [kind |-> kind, buoy |-> buoy, auth |-> auth, series |-> series, resp |-> resp]

Count(reqs, kind) == Cardinality({i \in 1..Len(reqs) : reqs[i].kind = kind})

(* ------------------------------- state -------------------------------- *)
VARIABLES
  phase,      \* "new": not constructed; "ready": __init__ returned;
              \* "failed": __init__ raised, there is no object
  attrs,      \* the attributes of self that have been assigned
  token,      \* self._token
  header,     \* the token inside self._header ('Bearer ' + str(self._token))
  buoy_ids,   \* self.buoy_ids, a list
  call,       \* the method call that has just finished
  ret,        \* what that call returned
  saved,      \* the artifacts that call wrote with files.save_df
  loggedOut,  \* history: logout() has been called on the object
  issued      \* history: the tokens the object got from an OK login response

vars == <<phase, attrs, token, header, buoy_ids, call, ret, saved, loggedOut, issued>>

NoneVal == [tag |-> "None"]

Call(op, buoy, check, series, ids, out, reqs) ==
  [op |-> op, buoy |-> buoy, check |-> check, series |-> series, ids |-> ids,
   out |-> out, reqs |-> reqs]
IdleCall == Call("idle", NoBuoy, FALSE, {}, <<>>, Returned, <<>>)

Idle == call.op = "idle"

\* The responses a call can consume are drawn only for the requests the
\* call gets as far as issuing: Unasked stands for a response never read.
Unasked == {RespExc}

(* ---------------------------- get_token ------------------------------- *)
\* the while loop of get_token from the test `attempt <= MAX_API_CALLS` on;
\* resps[k] is the response to the k-th login request.
\* Result: how the method ends, the requests issued, self._token and
\* whether self._token was assigned.
\* get_token with the failure test one attempt late (attempt == MAX_API_CALLS + 1)
RECURSIVE get_token_loop_late(_, _, _, _, _)
get_token_loop_late(attempt, resps, reqs, tok, assigned) ==
  IF ~(attempt <= MAX_API_CALLS)
  THEN [out |-> Returned, reqs |-> reqs, token |-> tok, assigned |-> assigned]
  ELSE LET a == attempt + 1
           r == resps[a]
           sent == Append(reqs, Req("login", NoBuoy, NoHeader, {}, r))
       IN CASE r.kind = "exc" ->
                 [out |-> TransportError, reqs |-> sent, token |-> tok,
                  assigned |-> assigned]
            [] r.kind = "ok" ->
                 [out |-> Returned, reqs |-> sent, token |-> r.token,
                  assigned |-> TRUE]
            [] r.kind = "junk" ->
                 [out |-> JsonError, reqs |-> sent, token |-> tok,
                  assigned |-> assigned]
            [] OTHER ->
                 IF a = MAX_API_CALLS + 1
                 THEN [out |-> AuthenticationError, reqs |-> sent,
                       token |-> NoToken, assigned |-> TRUE]
                 ELSE get_token_loop_late(a, resps, sent, tok, assigned)

\* get_token without the break after an OK response
RECURSIVE get_token_loop_nobreak(_, _, _, _, _)
get_token_loop_nobreak(attempt, resps, reqs, tok, assigned) ==
  IF ~(attempt <= MAX_API_CALLS)
  THEN [out |-> Returned, reqs |-> reqs, token |-> tok, assigned |-> assigned]
  ELSE LET a == attempt + 1
           r == resps[a]
           sent == Append(reqs, Req("login", NoBuoy, NoHeader, {}, r))
       IN CASE r.kind = "exc" ->
                 [out |-> TransportError, reqs |-> sent, token |-> tok,
                  assigned |-> assigned]
            [] r.kind = "ok" ->
                 IF a = MAX_API_CALLS
                 THEN [out |-> AuthenticationError, reqs |-> sent,
                       token |-> NoToken, assigned |-> TRUE]
                 ELSE get_token_loop_nobreak(a, resps, sent, r.token, TRUE)
            [] r.kind = "junk" ->
                 [out |-> JsonError, reqs |-> sent, token |-> tok,
                  assigned |-> assigned]
            [] OTHER ->
                 IF a = MAX_API_CALLS
                 THEN [out |-> AuthenticationError, reqs |-> sent,
                       token |-> NoToken, assigned |-> TRUE]
                 ELSE get_token_loop_nobreak(a, resps, sent, tok, assigned)

RECURSIVE get_token_loop(_, _, _, _, _)
get_token_loop(attempt, resps, reqs, tok, assigned) ==
  IF ~(attempt <= MAX_API_CALLS)
  THEN [out |-> Returned, reqs |-> reqs, token |-> tok, assigned |-> assigned]
  ELSE LET a == attempt + 1
           r == resps[a]
           sent == Append(reqs, Req("login", NoBuoy, NoHeader, {}, r))
       IN CASE r.kind = "exc" ->
                 [out |-> TransportError, reqs |-> sent, token |-> tok,
                  assigned |-> assigned]
            [] r.kind = "ok" ->
                 [out |-> Returned, reqs |-> sent, token |-> r.token,
                  assigned |-> TRUE]
            [] r.kind = "junk" ->
                 [out |-> JsonError, reqs |-> sent, token |-> tok,
                  assigned |-> assigned]
            [] OTHER ->
                 IF a = MAX_API_CALLS
                 THEN [out |-> AuthenticationError, reqs |-> sent,
                       token |-> NoToken, assigned |-> TRUE]
                 ELSE get_token_loop(a, resps, sent, tok, assigned)

get_token(resps, tok, assigned) == get_token_loop(0, resps, <<>>, tok, assigned)

\* The responses a call of get_token can consume: one for every login
\* request the loop condition allows, Unasked past the last one it issues.
LoginScripts ==
  {s \in [1..(MAX_API_CALLS + 1) -> LoginResps] :
     \A k \in 1..(MAX_API_CALLS + 1) :
       k > Len(get_token(s, NoToken, FALSE).reqs) => s[k] = RespExc}

\* get_buoy_ids that adds the ids of the response to the list it holds
get_buoy_ids_merge(hdr, r) ==
  LET sent == <<Req("user", NoBuoy, hdr, {}, r)>>
  IN CASE r.kind = "ok" ->
            [out |-> Returned, reqs |-> sent,
             buoy_ids |-> buoy_ids \o SelectSeq(r.ids, LAMBDA b : b \notin Range(buoy_ids))]
       [] r.kind = "exc" -> [out |-> UnboundLocalError, reqs |-> sent, buoy_ids |-> <<>>]
       [] OTHER -> [out |-> ScopeFetchError, reqs |-> sent, buoy_ids |-> <<>>]

\* get_buoy_ids whose except-handler leaves self.buoy_ids as it was
get_buoy_ids_keep(hdr, r) ==
  LET sent == <<Req("user", NoBuoy, hdr, {}, r)>>
  IN CASE r.kind = "ok" -> [out |-> Returned, reqs |-> sent, buoy_ids |-> r.ids]
       [] r.kind = "exc" -> [out |-> UnboundLocalError, reqs |-> sent, buoy_ids |-> buoy_ids]
       [] OTHER -> [out |-> ScopeFetchError, reqs |-> sent, buoy_ids |-> buoy_ids]

(* --------------------------- get_buoy_ids ----------------------------- *)
\* Result: how the method ends, the request issued, self.buoy_ids
get_buoy_ids(hdr, r) ==
  LET sent == <<Req("user", NoBuoy, hdr, {}, r)>>
  IN CASE r.kind = "ok" -> [out |-> Returned, reqs |-> sent, buoy_ids |-> r.ids]
       [] r.kind = "exc" -> [out |-> UnboundLocalError, reqs |-> sent, buoy_ids |-> <<>>]
       [] OTHER -> [out |-> ScopeFetchError, reqs |-> sent, buoy_ids |-> <<>>]

(* ------------------------------ logout -------------------------------- *)
logout(r) ==
  LET sent == <<Req("logout", NoBuoy, NoHeader, {}, r)>>
  IN IF r.kind = "exc" THEN [out |-> LogoutError, reqs |-> sent]
                       ELSE [out |-> Returned, reqs |-> sent]

\* get_current_status with the scope assertion placed after the request
get_current_status_late_check(bids, hdr, b, check, r) ==
  LET sent == <<Req("details", b, hdr, {}, r)>>
  IN IF check /\ b \notin Range(bids)
     THEN [out |-> ScopeError, reqs |-> sent, ret |-> NoneVal]
     ELSE CASE r.kind = "exc" ->
                 [out |-> UnboundLocalError, reqs |-> sent, ret |-> NoneVal]
            [] r.kind = "ok" ->
                 [out |-> Returned, reqs |-> sent, ret |-> StatusBody(b, r.avail)]
            [] r.kind = "junk" ->
                 [out |-> StatusFetchError, reqs |-> sent, ret |-> NoneVal]
            [] OTHER ->
                 [out |-> Returned, reqs |-> sent, ret |-> NoneVal]

(* ------------------------ get_current_status -------------------------- *)
\* Result: how the method ends, the requests issued, the value returned
get_current_status(bids, hdr, b, check, r) ==
  IF check /\ b \notin Range(bids)
  THEN [out |-> ScopeError, reqs |-> <<>>, ret |-> NoneVal]
  ELSE LET sent == <<Req("details", b, hdr, {}, r)>>
       IN CASE r.kind = "exc" ->
                 [out |-> UnboundLocalError, reqs |-> sent, ret |-> NoneVal]
            [] r.kind = "ok" ->
                 [out |-> Returned, reqs |-> sent, ret |-> StatusBody(b, r.avail)]
            [] r.kind = "junk" ->
                 [out |-> StatusFetchError, reqs |-> sent, ret |-> NoneVal]
            [] OTHER ->
                 [out |-> Returned, reqs |-> sent, ret |-> NoneVal]

\* get_historical_data that issues one reports request for every variable
get_historical_data_per_var(bids, hdr, b, series, s, r) ==
  IF b \notin Range(bids)
  THEN [out |-> ScopeError, reqs |-> <<>>, ret |-> NoneVal]
  ELSE LET st == get_current_status(bids, hdr, b, TRUE, s)
       IN IF st.out # Returned
          THEN st
          ELSE IF st.ret = NoneVal
          THEN [out |-> TypeError, reqs |-> st.reqs, ret |-> NoneVal]
          ELSE LET available_vars == st.ret.series
                   asked == IF series = {} THEN available_vars ELSE series
                   names == SelectSeq(<<"wave_height", "wind_speed", "position_latitude">>,
                                      LAMBDA v : v \in asked)
                   sent == st.reqs \o [i \in 1..Len(names) |->
                                         Req("reports", b, hdr, {names[i]}, r)]
               IN CASE r.kind = "exc" ->
                         [out |-> UnboundLocalError, reqs |-> sent, ret |-> NoneVal]
                    [] r.kind = "ok" ->
                         [out |-> Returned, reqs |-> sent,
                          ret |-> [tag |-> "json", data |-> r.data]]
                    [] r.kind = "junk" ->
                         [out |-> HistoricalFetchError, reqs |-> sent, ret |-> NoneVal]
                    [] OTHER ->
                         [out |-> Returned, reqs |-> sent, ret |-> NoneVal]

(* ----------------------- get_historical_data --------------------------- *)
\* s answers the status request, r the reports request
get_historical_data(bids, hdr, b, series, s, r) ==
  IF b \notin Range(bids)
  THEN [out |-> ScopeError, reqs |-> <<>>, ret |-> NoneVal]
  ELSE LET st == get_current_status(bids, hdr, b, TRUE, s)
       IN IF st.out # Returned
          THEN st
          ELSE IF st.ret = NoneVal
          THEN [out |-> TypeError, reqs |-> st.reqs, ret |-> NoneVal]
          ELSE LET available_vars == st.ret.series
                   asked == IF series = {} THEN available_vars ELSE series
                   sent == Append(st.reqs, Req("reports", b, hdr, asked, r))
               IN CASE r.kind = "exc" ->
                         [out |-> UnboundLocalError, reqs |-> sent, ret |-> NoneVal]
                    [] r.kind = "ok" ->
                         [out |-> Returned, reqs |-> sent,
                          ret |-> [tag |-> "json", data |-> r.data]]
                    [] r.kind = "junk" ->
                         [out |-> HistoricalFetchError, reqs |-> sent, ret |-> NoneVal]
                    [] OTHER ->
                         [out |-> Returned, reqs |-> sent, ret |-> NoneVal]

(* ------------------------------ pandas -------------------------------- *)
\* A DataFrame: its column names in order and its rows in order; a row maps
\* every column name to a value.
Table(cols, rows) == [tag |-> "table", cols |-> cols, rows |-> rows]

\* pd.DataFrame(points, columns=["time", "value"])
DataFrame(points) ==
  Table(<<"time", "value">>,
        [i \in 1..Len(points) |->
           [c \in {"time", "value"} |-> IF c = "time" THEN points[i][1]
                                                     ELSE points[i][2]]])

\* df.rename(columns={old: new})
rename(df, old, new) ==
  LET cols == [i \in 1..Len(df.cols) |-> IF df.cols[i] = old THEN new ELSE df.cols[i]]
  IN Table(cols,
           [i \in 1..Len(df.rows) |->
              [c \in Range(cols) |-> IF c = new /\ old \in Range(df.cols)
                                     THEN df.rows[i][old] ELSE df.rows[i][c]]])

\* the rows of pd.merge(left, right, on="time"): for every row of left, in
\* order, one row for every row of right with the same time
RECURSIVE merge_rows(_, _, _)
merge_rows(lrows, rrows, i) ==
  IF i > Len(lrows) THEN <<>>
  ELSE LET l == lrows[i]
           matches == SelectSeq(rrows, LAMBDA r : r["time"] = l["time"])
       IN [k \in 1..Len(matches) |-> l @@ matches[k]] \o merge_rows(lrows, rrows, i + 1)

\* pd.merge(left, right, on="time", how="left"): the rows of left that have
\* no partner are kept, with NaN in the columns of right
RECURSIVE merge_rows_left(_, _, _)
merge_rows_left(lrows, rrows, i) ==
  IF i > Len(lrows) THEN <<>>
  ELSE LET l == lrows[i]
           matches == SelectSeq(rrows, LAMBDA r : r["time"] = l["time"])
           alone == l @@ [c \in UNION {DOMAIN rrows[k] : k \in 1..Len(rrows)} |-> NaN]
       IN (IF matches = <<>> /\ rrows # <<>> THEN <<alone>>
           ELSE [k \in 1..Len(matches) |-> l @@ matches[k]])
          \o merge_rows_left(lrows, rrows, i + 1)

merge_left(left, right) ==
  Table(left.cols \o SelectSeq(right.cols, LAMBDA c : c # "time"),
        merge_rows_left(left.rows, right.rows, 1))

\* the tables put side by side by row position (pd.concat(axis=1) or
\* DataFrame.join on the index) instead of joined on the time column
merge_index(left, right) ==
  Table(left.cols \o SelectSeq(right.cols, LAMBDA c : c # "time"),
        [i \in 1..Len(left.rows) |->
           IF i <= Len(right.rows)
           THEN left.rows[i] @@ right.rows[i]
           ELSE left.rows[i] @@ [c \in Range(right.cols) |-> NaN]])

\* pd.merge(left, right, on="time"): an inner join
merge(left, right) ==
  Table(left.cols \o SelectSeq(right.cols, LAMBDA c : c # "time"),
        merge_rows(left.rows, right.rows, 1))

\* reduce(lambda left, right: pd.merge(left, right, on="time"), dfs), for a
\* non-empty list dfs
RECURSIVE reduce_merge(_, _)
reduce_merge(dfs, n) ==
  IF n = 1 THEN dfs[1]
  ELSE Bind(reduce_merge(dfs, n - 1), LAMBDA left : merge(left, dfs[n]))

\* df.insert(0, 'buoy_id', buoy_id)
insert_buoy_id(df, b) ==
  Table(<<"buoy_id">> \o df.cols,
        [i \in 1..Len(df.rows) |-> df.rows[i] @@ [c \in {"buoy_id"} |-> b]])

\* pd.concat(dfs, ignore_index=True) of two tables: the columns of both,
\* the rows of both in order, NaN where a table lacks a column
concat2(a, b) ==
  LET cols == a.cols \o SelectSeq(b.cols, LAMBDA c : c \notin Range(a.cols))
      fill(row) == [c \in Range(cols) |-> IF c \in DOMAIN row THEN row[c] ELSE NaN]
  IN Table(cols, [i \in 1..Len(a.rows) |-> fill(a.rows[i])]
                 \o [i \in 1..Len(b.rows) |-> fill(b.rows[i])])

RECURSIVE concat(_, _)
concat(dfs, n) ==
  IF n = 1 THEN dfs[1]
  ELSE Bind(concat(dfs, n - 1), LAMBDA a : concat2(a, dfs[n]))

(* -------------------------- create_buoy_df ----------------------------- *)
\* the assertion of create_buoy_df on the requested variables skipped
valid_series_any(series, available_vars) == TRUE

\* set(series).issubset(available_vars)
valid_series(series, available_vars) == series \subseteq available_vars

\* the table create_buoy_df builds from the payload data (a non-empty list)
final_df(data, b) ==
  Bind([i \in 1..Len(data) |->
          rename(DataFrame(data[i].points), "value", data[i].var)],
       LAMBDA dfs :
         Bind(reduce_merge(dfs, Len(dfs)),
              LAMBDA joined :
                Bind(rename(joined, "position_latitude", "buoy_lat"),
                     LAMBDA lat :
                       Bind(rename(lat, "position_longitude", "buoy_lon"),
                            LAMBDA renamed : insert_buoy_id(renamed, b)))))

\* s1 answers the status request of create_buoy_df itself, s2 the status
\* request of get_historical_data, r the reports request
create_buoy_df(bids, hdr, b, series, s1, s2, r) ==
  IF b \notin Range(bids)
  THEN [out |-> ScopeError, reqs |-> <<>>, ret |-> NoneVal]
  ELSE Bind(get_current_status(bids, hdr, b, TRUE, s1), LAMBDA st :
         IF st.out # Returned
         THEN st
         ELSE IF st.ret = NoneVal
         THEN [out |-> TypeError, reqs |-> st.reqs, ret |-> NoneVal]
         ELSE LET available_vars == st.ret.series
                  asked == IF series = {} THEN available_vars ELSE series
              IN IF ~valid_series(asked, available_vars)
                 THEN [out |-> InvalidVariableError, reqs |-> st.reqs, ret |-> NoneVal]
                 ELSE Bind(get_historical_data(bids, hdr, b, asked, s2, r), LAMBDA h :
                        LET sent == st.reqs \o h.reqs
                        IN IF h.out # Returned
                           THEN [out |-> h.out, reqs |-> sent, ret |-> NoneVal]
                           ELSE IF h.ret = NoneVal \/ h.ret.data = <<>>
                           THEN [out |-> TypeError, reqs |-> sent, ret |-> NoneVal]
                           ELSE [out |-> Returned, reqs |-> sent,
                                 ret |-> final_df(h.ret.data, b)]))

\* the variables named by the reports request among reqs
AskedSeries(reqs) ==
  LET i == CHOOSE i \in 1..Len(reqs) : reqs[i].kind = "reports" IN reqs[i].series

\* the responses to the three requests of one create_buoy_df call
Triple(s1, s2, r) == [s1 |-> s1, s2 |-> s2, r |-> r]
UnaskedTriple == Triple(RespExc, RespExc, RespExc)

\* the triples a call create_buoy_df(b, series) can consume, the status
\* responses drawn from S1 and S2, the reports response over every payload
\* or over one
BuoyTriples(bids, hdr, b, series, S1, S2, every) ==
  UNION {
    LET p1 == create_buoy_df(bids, hdr, b, series, s1, RespExc, RespExc)
    IN UNION {
         LET p2 == create_buoy_df(bids, hdr, b, series, s1, s2, RespExc)
         IN {Triple(s1, s2, r) :
               r \in IF Count(p2.reqs, "reports") > 0
                     THEN ReportsRespsOver(every, AskedSeries(p2.reqs))
                     ELSE Unasked}
         : s2 \in IF Count(p1.reqs, "details") > 1 THEN S2 ELSE Unasked}
    : s1 \in IF b \in Range(bids) THEN S1 ELSE Unasked}

(* ------------------------ build_historical_df -------------------------- *)
\* [self.create_buoy_df(buoy_id, series) for buoy_id in buoy_ids], for the
\* first n ids: the comprehension stops at the first call that raises
RECURSIVE create_buoy_dfs(_, _, _, _, _, _)
create_buoy_dfs(bids, hdr, ids, series, script, n) ==
  IF n = 0 THEN [out |-> Returned, reqs |-> <<>>, dfs |-> <<>>]
  ELSE Bind(create_buoy_dfs(bids, hdr, ids, series, script, n - 1), LAMBDA prev :
         IF prev.out # Returned THEN prev
         ELSE Bind(create_buoy_df(bids, hdr, ids[n], series,
                                  script[n].s1, script[n].s2, script[n].r), LAMBDA e :
                [out |-> e.out, reqs |-> prev.reqs \o e.reqs,
                 dfs |-> IF e.out = Returned THEN Append(prev.dfs, e.ret)
                                             ELSE prev.dfs]))

\* the assertion of build_historical_df skipped
nonempty_any(ids) == TRUE

\* assert buoy_ids
nonempty(ids) == ids # <<>>

\* build_historical_df that calls logout() in a finally clause, also when a
\* buoy's table could not be built
build_historical_df_finally(bids, hdr, ids, series, script, lo) ==
  IF ~nonempty(ids)
  THEN [out |-> EmptyRequestError, reqs |-> <<>>, saved |-> <<>>, logout |-> FALSE]
  ELSE Bind(create_buoy_dfs(bids, hdr, ids, series, script, Len(ids)), LAMBDA c :
         LET l == logout(lo)
         IN IF c.out # Returned
            THEN [out |-> c.out, reqs |-> c.reqs \o l.reqs, saved |-> <<>>,
                  logout |-> TRUE]
            ELSE IF c.dfs = <<>>
            THEN [out |-> PandasError, reqs |-> c.reqs \o l.reqs, saved |-> <<>>,
                  logout |-> TRUE]
            ELSE LET artifact == [kind |-> "buoys", name |-> ids,
                                  table |-> concat(c.dfs, Len(c.dfs))]
                 IN [out |-> l.out, reqs |-> c.reqs \o l.reqs,
                     saved |-> <<artifact>>, logout |-> TRUE])

\* script[i] answers the requests for ids[i], lo the logout request.
\* Result: how the method ends, the requests issued, the artifacts written
\* with files.save_df, whether logout() was called.
build_historical_df(bids, hdr, ids, series, script, lo) ==
  IF ~nonempty(ids)
  THEN [out |-> EmptyRequestError, reqs |-> <<>>, saved |-> <<>>, logout |-> FALSE]
  ELSE Bind(create_buoy_dfs(bids, hdr, ids, series, script, Len(ids)), LAMBDA c :
         IF c.out # Returned
         THEN [out |-> c.out, reqs |-> c.reqs, saved |-> <<>>, logout |-> FALSE]
         ELSE IF c.dfs = <<>>
         THEN [out |-> PandasError, reqs |-> c.reqs, saved |-> <<>>, logout |-> FALSE]
         ELSE LET artifact == [kind |-> "buoys", name |-> ids,
                               table |-> concat(c.dfs, Len(c.dfs))]
                  l == logout(lo)
              IN [out |-> l.out, reqs |-> c.reqs \o l.reqs,
                  saved |-> <<artifact>>, logout |-> TRUE])

\* the scripts a call build_historical_df(ids, series) can consume for its
\* first n ids
RECURSIVE HistoricalScripts(_, _, _, _, _)
HistoricalScripts(bids, hdr, ids, series, n) ==
  IF n = 0 THEN {<<>>}
  ELSE UNION {
         IF create_buoy_dfs(bids, hdr, ids, series, pre, n - 1).out = Returned
         THEN {Append(pre, x) :
                 x \in BuoyTriples(bids, hdr, ids[n], series, SmallStatusResps,
                                   StatusRespsOver({Vars}), FALSE)}
         ELSE {Append(pre, UnaskedTriple)}
         : pre \in HistoricalScripts(bids, hdr, ids, series, n - 1)}

\* the comprehension of build_current_df stopping one buoy short
RECURSIVE current_statuses_short(_, _, _, _)
current_statuses_short(bids, hdr, script, n) ==
  IF n <= 1 THEN [out |-> Returned, reqs |-> <<>>, rets |-> <<>>]
  ELSE Bind(current_statuses_short(bids, hdr, script, n - 1), LAMBDA prev :
         IF prev.out # Returned THEN prev
         ELSE LET e == get_current_status(bids, hdr, bids[n - 1], FALSE, script[n - 1])
              IN [out |-> e.out, reqs |-> prev.reqs \o e.reqs,
                  rets |-> IF e.out = Returned THEN Append(prev.rets, e.ret)
                                               ELSE prev.rets])

(* -------------------------- build_current_df --------------------------- *)
\* [self.get_current_status(buoy_id, check=False) for buoy_id in
\* self.buoy_ids], for the first n ids
RECURSIVE current_statuses(_, _, _, _)
current_statuses(bids, hdr, script, n) ==
  IF n = 0 THEN [out |-> Returned, reqs |-> <<>>, rets |-> <<>>]
  ELSE Bind(current_statuses(bids, hdr, script, n - 1), LAMBDA prev :
         IF prev.out # Returned THEN prev
         ELSE LET e == get_current_status(bids, hdr, bids[n], FALSE, script[n])
              IN [out |-> e.out, reqs |-> prev.reqs \o e.reqs,
                  rets |-> IF e.out = Returned THEN Append(prev.rets, e.ret)
                                               ELSE prev.rets])

\* the table of build_current_df: buoy_id and the flattened summary
current_buoys(rets) ==
  Table(<<"buoy_id", "buoy_lat", "buoy_lon", "last_updated">>,
        [i \in 1..Len(rets) |->
           [buoy_id |-> rets[i].buoy_id,
            buoy_lat |-> rets[i].summary.latitude,
            buoy_lon |-> rets[i].summary.longitude,
            last_updated |-> rets[i].summary.last_updated]])

\* current_buoys.last_updated.max()
max_last_updated(df) ==
  CHOOSE m \in {df.rows[i].last_updated : i \in 1..Len(df.rows)} :
    \A i \in 1..Len(df.rows) : df.rows[i].last_updated <= m

\* build_current_df that returns the table without calling logout()
build_current_df_no_logout(bids, hdr, script, lo) ==
  Bind(current_statuses(bids, hdr, script, Len(bids)), LAMBDA c :
    IF c.out # Returned
    THEN [out |-> c.out, reqs |-> c.reqs, saved |-> <<>>, logout |-> FALSE,
          ret |-> NoneVal]
    ELSE IF c.rets = <<>> \/ \E i \in 1..Len(c.rets) : c.rets[i] = NoneVal
    THEN [out |-> PandasError, reqs |-> c.reqs, saved |-> <<>>, logout |-> FALSE,
          ret |-> NoneVal]
    ELSE LET df == current_buoys(c.rets)
             artifact == [kind |-> "current_buoys", name |-> <<max_last_updated(df)>>,
                          table |-> df]
         IN [out |-> Returned, reqs |-> c.reqs, saved |-> <<artifact>>,
             logout |-> FALSE, ret |-> df])

\* script[i] answers the status request for self.buoy_ids[i], lo the logout.
\* pandas raises when a status is None (pd.DataFrame of a list holding
\* None) or when there is no buoy (no last_updated column).
build_current_df(bids, hdr, script, lo) ==
  Bind(current_statuses(bids, hdr, script, Len(bids)), LAMBDA c :
    IF c.out # Returned
    THEN [out |-> c.out, reqs |-> c.reqs, saved |-> <<>>, logout |-> FALSE,
          ret |-> NoneVal]
    ELSE IF c.rets = <<>> \/ \E i \in 1..Len(c.rets) : c.rets[i] = NoneVal
    THEN [out |-> PandasError, reqs |-> c.reqs, saved |-> <<>>, logout |-> FALSE,
          ret |-> NoneVal]
    ELSE LET df == current_buoys(c.rets)
             artifact == [kind |-> "current_buoys", name |-> <<max_last_updated(df)>>,
                          table |-> df]
             l == logout(lo)
         IN [out |-> l.out, reqs |-> c.reqs \o l.reqs, saved |-> <<artifact>>,
             logout |-> TRUE,
             ret |-> IF l.out = Returned THEN df ELSE NoneVal])

\* the scripts a call build_current_df() can consume for its first n ids
RECURSIVE CurrentScripts(_, _, _)
CurrentScripts(bids, hdr, n) ==
  IF n = 0 THEN {<<>>}
  ELSE UNION {
         IF current_statuses(bids, hdr, pre, n - 1).out = Returned
         THEN {Append(pre, x) : x \in StatusRespsOver({Vars})}
         ELSE {Append(pre, RespExc)}
         : pre \in CurrentScripts(bids, hdr, n - 1)}

\* __init__ that swallows the failure of get_token and goes on
init_swallow(resps, userResp) ==
  LET t == get_token(resps, NoToken, FALSE)
      b == get_buoy_ids(t.token, userResp)
  IN [out |-> b.out, reqs |-> t.reqs \o b.reqs, token |-> t.token,
      header |-> t.token, buoy_ids |-> b.buoy_ids,
      attrs |-> {"_token", "_header", "buoy_ids"}]

(* ----------------------------- __init__ ------------------------------- *)
\* Result: the state of the object's attributes when __init__ ends
__init__(resps, userResp) ==
  LET t == get_token(resps, NoToken, FALSE)
  IN IF t.out # Returned
     THEN [out |-> t.out, reqs |-> t.reqs, token |-> t.token, header |-> NoToken,
           buoy_ids |-> <<>>,
           attrs |-> IF t.assigned THEN {"_token"} ELSE {}]
     ELSE LET b == get_buoy_ids(t.token, userResp)
          IN [out |-> b.out, reqs |-> t.reqs \o b.reqs, token |-> t.token,
              header |-> t.token, buoy_ids |-> b.buoy_ids,
              attrs |-> {"_token", "_header", "buoy_ids"}]

NewIssued(reqs) ==
  {reqs[i].resp.token : i \in {j \in 1..Len(reqs) :
        reqs[j].kind = "login" /\ reqs[j].resp.kind = "ok"}}

(* ------------------------------ actions ------------------------------- *)
Init ==
  /\ phase = "new"
  /\ attrs = {}
  /\ token = NoToken
  /\ header = NoToken
  /\ buoy_ids = <<>>
  /\ call = IdleCall
  /\ ret = NoneVal
  /\ saved = <<>>
  /\ loggedOut = FALSE
  /\ issued = {}

\* api = BOG_API()
Construct ==
  /\ phase = "new" /\ Idle
  /\ \E resps \in LoginScripts, u \in UserResps :
       LET e == __init__(resps, u)
       IN /\ phase' = IF e.out = Returned THEN "ready" ELSE "failed"
          /\ attrs' = e.attrs
          /\ token' = e.token
          /\ header' = e.header
          /\ buoy_ids' = e.buoy_ids
          /\ call' = Call("__init__", NoBuoy, FALSE, {}, <<>>, e.out, e.reqs)
          /\ issued' = issued \cup NewIssued(e.reqs)
  /\ UNCHANGED <<ret, saved, loggedOut>>

\* api.get_token() on a constructed object
GetToken ==
  /\ phase = "ready" /\ Idle
  /\ \E resps \in LoginScripts :
       LET e == get_token(resps, token, TRUE)
       IN /\ token' = e.token
          /\ call' = Call("get_token", NoBuoy, FALSE, {}, <<>>, e.out, e.reqs)
          /\ issued' = issued \cup NewIssued(e.reqs)
  /\ UNCHANGED <<phase, attrs, header, buoy_ids, ret, saved, loggedOut>>

\* api.get_buoy_ids() on a constructed object
GetBuoyIds ==
  /\ phase = "ready" /\ Idle
  /\ \E u \in UserResps :
       LET e == get_buoy_ids(header, u)
       IN /\ buoy_ids' = e.buoy_ids
          /\ call' = Call("get_buoy_ids", NoBuoy, FALSE, {}, <<>>, e.out, e.reqs)
  /\ UNCHANGED <<phase, attrs, token, header, ret, saved, loggedOut, issued>>

\* api.logout()
Logout ==
  /\ phase = "ready" /\ Idle
  /\ \E r \in LogoutResps :
       LET e == logout(r)
       IN call' = Call("logout", NoBuoy, FALSE, {}, <<>>, e.out, e.reqs)
  /\ loggedOut' = TRUE
  /\ UNCHANGED <<phase, attrs, token, header, buoy_ids, ret, saved, issued>>

\* get_current_status whose failure empties self.buoy_ids, the way the
\* except-handler of get_buoy_ids does
GetCurrentStatusResets ==
  /\ phase = "ready" /\ Idle
  /\ \E b \in Ids, check \in BOOLEAN, r \in StatusResps :
       LET e == get_current_status(buoy_ids, header, b, check, r)
       IN /\ call' = Call("get_current_status", b, check, {}, <<>>, e.out, e.reqs)
          /\ ret' = e.ret
          /\ buoy_ids' = IF e.out = Returned THEN buoy_ids ELSE <<>>
  /\ UNCHANGED <<phase, attrs, token, header, saved, loggedOut, issued>>

\* api.get_current_status(b, check)
GetCurrentStatus ==
  /\ phase = "ready" /\ Idle
  /\ \E b \in Ids, check \in BOOLEAN, r \in StatusResps :
       LET e == get_current_status(buoy_ids, header, b, check, r)
       IN /\ call' = Call("get_current_status", b, check, {}, <<>>, e.out, e.reqs)
          /\ ret' = e.ret
  /\ UNCHANGED <<phase, attrs, token, header, buoy_ids, saved, loggedOut, issued>>

\* api.get_historical_data(b, series); the reports response is drawn only
\* when the call gets as far as the reports request
GetHistoricalData ==
  /\ phase = "ready" /\ Idle
  /\ \E b \in Ids, series \in SUBSET Vars, s \in SmallStatusResps :
       LET probe == get_historical_data(buoy_ids, header, b, series, s, RespExc)
       IN \E r \in IF Count(probe.reqs, "reports") > 0
                   THEN SmallReportsResps(AskedSeries(probe.reqs)) ELSE Unasked :
            LET e == get_historical_data(buoy_ids, header, b, series, s, r)
            IN /\ call' = Call("get_historical_data", b, TRUE, series, <<>>,
                               e.out, e.reqs)
               /\ ret' = e.ret
  /\ UNCHANGED <<phase, attrs, token, header, buoy_ids, saved, loggedOut, issued>>

CreateBuoyDfOver(S1, S2, every) ==
  /\ phase = "ready" /\ Idle
  /\ \E b \in Ids, series \in SUBSET Vars :
       \E s1 \in IF b \in Range(buoy_ids) THEN S1 ELSE Unasked :
         LET p1 == create_buoy_df(buoy_ids, header, b, series, s1, RespExc, RespExc)
         IN \E s2 \in IF Count(p1.reqs, "details") > 1 THEN S2 ELSE Unasked :
              LET p2 == create_buoy_df(buoy_ids, header, b, series, s1, s2, RespExc)
              IN \E r \in IF Count(p2.reqs, "reports") > 0
                          THEN ReportsRespsOver(every, AskedSeries(p2.reqs))
                          ELSE Unasked :
                   LET e == create_buoy_df(buoy_ids, header, b, series, s1, s2, r)
                   IN /\ call' = Call("create_buoy_df", b, TRUE, series, <<>>,
                                      e.out, e.reqs)
                      /\ ret' = e.ret
  /\ UNCHANGED <<phase, attrs, token, header, buoy_ids, saved, loggedOut, issued>>

\* api.create_buoy_df(b, series)
CreateBuoyDf ==
  CreateBuoyDfOver(SmallStatusResps, StatusRespsOver({Vars}), FALSE)

\* the variable lists build_historical_df is called with
FleetSeries == {{}, {"wave_height"}, {"wind_speed"}, {"wave_height", "position_latitude"}}

\* api.build_historical_df(ids, series)
BuildHistoricalDf ==
  /\ phase = "ready" /\ Idle
  /\ \E ids \in ScopeLists, series \in FleetSeries :
       \E script \in HistoricalScripts(buoy_ids, header, ids, series, Len(ids)) :
         LET p == build_historical_df(buoy_ids, header, ids, series, script, RespExc)
         IN \E lo \in IF p.logout THEN LogoutResps ELSE Unasked :
              LET e == build_historical_df(buoy_ids, header, ids, series, script, lo)
              IN /\ call' = Call("build_historical_df", NoBuoy, TRUE, series, ids,
                                 e.out, e.reqs)
                 /\ saved' = e.saved
                 /\ loggedOut' = (loggedOut \/ e.logout)
  /\ ret' = NoneVal
  /\ UNCHANGED <<phase, attrs, token, header, buoy_ids, issued>>

\* api.build_current_df()
BuildCurrentDf ==
  /\ phase = "ready" /\ Idle
  /\ \E script \in CurrentScripts(buoy_ids, header, Len(buoy_ids)) :
       LET p == build_current_df(buoy_ids, header, script, RespExc)
       IN \E lo \in IF p.logout THEN LogoutResps ELSE Unasked :
            LET e == build_current_df(buoy_ids, header, script, lo)
            IN /\ call' = Call("build_current_df", NoBuoy, FALSE, {}, <<>>,
                               e.out, e.reqs)
               /\ saved' = e.saved
               /\ ret' = e.ret
               /\ loggedOut' = (loggedOut \/ e.logout)
  /\ UNCHANGED <<phase, attrs, token, header, buoy_ids, issued>>

\* the caller has seen how the call ended and goes on
Return ==
  /\ ~Idle
  /\ call' = IdleCall
  /\ ret' = NoneVal
  /\ saved' = <<>>
  /\ UNCHANGED <<phase, attrs, token, header, buoy_ids, loggedOut, issued>>

Next ==
  \/ Construct
  \/ GetToken
  \/ GetBuoyIds
  \/ Logout
  \/ GetCurrentStatus
  \/ GetHistoricalData
  \/ CreateBuoyDf
  \/ Return

Spec == Init /\ [][Next]_vars

(* ---- create_buoy_df over every payload, on one constructed object ----- *)
InitAlign ==
  /\ phase = "ready"
  /\ attrs = {"_token", "_header", "buoy_ids"}
  /\ token = 1
  /\ header = 1
  /\ buoy_ids = <<1>>
  /\ call = IdleCall
  /\ ret = NoneVal
  /\ saved = <<>>
  /\ loggedOut = FALSE
  /\ issued = {1}

CreateBuoyDfAny ==
  CreateBuoyDfOver(StatusResps, StatusRespsOver({Vars, {"wave_height"}}), TRUE)

NextAlign ==
  \/ CreateBuoyDfAny
  \/ Return

SpecAlign == InitAlign /\ [][NextAlign]_vars

(* -- the fleet operations, on a freshly constructed object of any scope -- *)
InitFleet ==
  /\ phase = "ready"
  /\ attrs = {"_token", "_header", "buoy_ids"}
  /\ token = 1
  /\ header = token
  /\ buoy_ids \in ScopeLists
  /\ call = IdleCall
  /\ ret = NoneVal
  /\ saved = <<>>
  /\ loggedOut = FALSE
  /\ issued = {token}

NextFleet ==
  \/ BuildHistoricalDf
  \/ BuildCurrentDf
  \/ GetCurrentStatus
  \/ Logout
  \/ Return

SpecFleet == InitFleet /\ [][NextFleet]_vars

(***************************************************************************)
(*                              Properties                                 *)
(***************************************************************************)
Indices(reqs, kind) == {i \in 1..Len(reqs) : reqs[i].kind = kind}
Authenticates == call.op \in {"__init__", "get_token"}

\* C1: when every login request of an authentication is rejected with a
\* non-OK response, exactly MAX_API_CALLS = 3 login requests are issued, the
\* third one ends the call with the authentication error, and there is no
\* fourth login request (nor any other request).
C1_RejectedLoginsStopAtThree ==
  (/\ Authenticates
   /\ \A i \in Indices(call.reqs, "login") : call.reqs[i].resp.kind = "bad")
  => /\ Count(call.reqs, "login") = 3
     /\ Len(call.reqs) = 3
     /\ call.out = AuthenticationError

C1_Witness ==
  /\ call.op = "get_token"
  /\ Len(call.reqs) = 3
  /\ \A i \in 1..3 : call.reqs[i].kind = "login" /\ call.reqs[i].resp.kind = "bad"
  /\ call.out = AuthenticationError

\* C2: when the k-th login request (k in 1..3, after k-1 rejected ones) gets
\* an OK response, get_token returns without error right after it,
\* self._token is the token of that response, and no further login request
\* is issued.
C2_OkLoginStoresTokenAndStops ==
  Authenticates =>
    \A i \in Indices(call.reqs, "login") :
      call.reqs[i].resp.kind = "ok" =>
        /\ token = call.reqs[i].resp.token
        /\ \A j \in 1..(i - 1) : call.reqs[j].kind = "login"
                                 /\ call.reqs[j].resp.kind = "bad"
        /\ \A j \in (i + 1)..Len(call.reqs) : call.reqs[j].kind # "login"
        /\ call.op = "get_token" => call.out = Returned /\ Len(call.reqs) = i
        /\ call.op = "__init__" =>
              /\ call.out \notin {AuthenticationError, TransportError, JsonError}
              /\ Len(call.reqs) = i + 1
              /\ call.reqs[i + 1].kind = "user"

C2_Witness ==
  /\ call.op = "get_token"
  /\ Len(call.reqs) = 3
  /\ call.reqs[1].resp.kind = "bad" /\ call.reqs[2].resp.kind = "bad"
  /\ call.reqs[3].resp.kind = "ok"
  /\ token = call.reqs[3].resp.token
  /\ token # header
  /\ call.out = Returned

\* C3: get_current_status(buoy_id, check=True) for a buoy_id that is not in
\* self.buoy_ids raises the scope error and issues no request.
C3_ScopeErrorWithoutRequest ==
  (call.op = "get_current_status" /\ call.check /\ call.buoy \notin Range(buoy_ids))
  => call.out = ScopeError /\ call.reqs = <<>>

C3_Witness ==
  /\ call.op = "get_current_status" /\ call.check
  /\ call.buoy \notin Range(buoy_ids)
  /\ buoy_ids # <<>>
  /\ call.out = ScopeError

\* C4 (the claim as stated): once logout() has been called, the object holds
\* no usable token, neither in self._token nor in the header it sends.
C4_NoTokenAfterLogout ==
  loggedOut => token \notin Tokens /\ header \notin Tokens

\* C5: construction is all-or-nothing.  When get_token fails inside
\* __init__, __init__ raises, only login requests were issued, self.buoy_ids
\* is never assigned and no method is ever called on the object; and every
\* request that carries the Authorization header carries a token that an OK
\* login response handed out (the one __init__ put into self._header; in
\* __init__ it is self._token itself).
AuthFailed == phase = "failed" /\ "_header" \notin attrs
Authenticated(rq) == rq.kind \in {"user", "details", "reports"}
C5_ConstructionAllOrNothing ==
  /\ (call.op = "__init__" /\ call.out \in {AuthenticationError, TransportError, JsonError})
       => AuthFailed
  /\ AuthFailed =>
       /\ call.op \in {"__init__", "idle"}
       /\ "buoy_ids" \notin attrs /\ buoy_ids = <<>>
       /\ \A i \in 1..Len(call.reqs) : call.reqs[i].kind = "login"
  /\ \A i \in 1..Len(call.reqs) :
       Authenticated(call.reqs[i]) =>
         /\ call.reqs[i].auth \in issued
         /\ call.reqs[i].auth = header
         /\ "_token" \in attrs /\ "_header" \in attrs
         /\ call.op = "__init__" => token = call.reqs[i].auth

C5_Witness ==
  /\ call.op = "__init__"
  /\ call.out = AuthenticationError
  /\ phase = "failed"
  /\ Count(call.reqs, "login") = 3

\* C6 (the claim as stated): get_current_status ends with the status-fetch
\* error whenever its details request fails, by a non-OK response or by an
\* exception of the transport.
C6_StatusFailureRaises ==
  (/\ call.op = "get_current_status"
   /\ \E i \in Indices(call.reqs, "details") : call.reqs[i].resp.kind \in {"bad", "exc"})
  => call.out = StatusFetchError

\* C7 (the claim as stated): get_historical_data ends with the
\* historical-fetch error whenever its reports request fails, by a non-OK
\* response or by an exception of the transport.
C7_HistoricalFailureRaises ==
  (/\ call.op = "get_historical_data"
   /\ \E i \in Indices(call.reqs, "reports") : call.reqs[i].resp.kind \in {"bad", "exc"})
  => call.out = HistoricalFetchError

\* C8: create_buoy_df for an authorized buoy, with a variable list that
\* holds a name the buoy's status does not advertise, raises the
\* invalid-variable error after the one status request and issues no
\* reports request.
C8_InvalidVariableNoReports ==
  (/\ call.op = "create_buoy_df"
   /\ call.buoy \in Range(buoy_ids)
   /\ Len(call.reqs) >= 1
   /\ call.reqs[1].kind = "details" /\ call.reqs[1].resp.kind = "ok"
   /\ ~(call.series \subseteq call.reqs[1].resp.avail))
  => /\ call.out = InvalidVariableError
     /\ Count(call.reqs, "reports") = 0
     /\ Len(call.reqs) = 1

C8_Witness ==
  /\ call.op = "create_buoy_df"
  /\ call.buoy \in Range(buoy_ids)
  /\ Len(call.reqs) = 1
  /\ call.reqs[1].resp.kind = "ok"
  /\ call.reqs[1].resp.avail = {"wave_height", "position_latitude"}
  /\ call.series = {"wave_height", "wind_speed"}
  /\ call.out = InvalidVariableError

\* the column of the table that holds a requested variable
ColumnOf(var) == IF var = "position_latitude" THEN "buoy_lat" ELSE var
\* the timestamps of the series of var in a payload
TimesOf(data, var) ==
  UNION {{data[i].points[k][1] : k \in 1..Len(data[i].points)}
         : i \in {j \in 1..Len(data) : data[j].var = var}}
\* the timestamps common to the series of all the variables
CommonTimes(data, series) ==
  {t \in Times : \A v \in series : t \in TimesOf(data, v)}
\* the reports request of the finished call
ReportsReq == call.reqs[CHOOSE i \in 1..Len(call.reqs) : call.reqs[i].kind = "reports"]

\* C10: when create_buoy_df gets its payload, it returns a table whose
\* timestamps are exactly those common to the series of all the requested
\* variables, in which every row holds the (non-absent) value of every
\* requested variable at the row's time; when no timestamp is common the
\* table is empty and nothing is raised.
C10_InnerJoinOnTime ==
  (/\ call.op = "create_buoy_df"
   /\ Count(call.reqs, "reports") = 1
   /\ ReportsReq.resp.kind = "ok"
   /\ ReportsReq.series # {})
  => LET asked == ReportsReq.series
         data == ReportsReq.resp.data
     IN /\ call.out = Returned
        /\ ret.tag = "table"
        /\ {ret.rows[i]["time"] : i \in 1..Len(ret.rows)} = CommonTimes(data, asked)
        /\ \A i \in 1..Len(ret.rows) : \A v \in asked :
              /\ ColumnOf(v) \in DOMAIN ret.rows[i]
              /\ ret.rows[i][ColumnOf(v)] # NaN
              /\ ret.rows[i][ColumnOf(v)] = ValueOf(v, ret.rows[i]["time"])
        /\ CommonTimes(data, asked) = {} => ret.rows = <<>>

\* three variables, two of them sampled at both times and one at time 2
\* only: one row, for time 2
C10_Witness ==
  /\ call.op = "create_buoy_df"
  /\ call.out = Returned
  /\ ret.tag = "table"
  /\ Count(call.reqs, "reports") = 1
  /\ ReportsReq.series = Vars
  /\ TimesOf(ReportsReq.resp.data, "wave_height") = {1, 2}
  /\ TimesOf(ReportsReq.resp.data, "wind_speed") = {2}
  /\ Len(ret.rows) = 1
  /\ ret.rows[1]["time"] = 2

\* no timestamp in common: an empty table is returned
C10_WitnessEmpty ==
  /\ call.op = "create_buoy_df"
  /\ call.out = Returned
  /\ ret.tag = "table"
  /\ Count(call.reqs, "reports") = 1
  /\ TimesOf(ReportsReq.resp.data, "wave_height") = {1}
  /\ TimesOf(ReportsReq.resp.data, "wind_speed") = {2}
  /\ ret.rows = <<>>

\* the /user request of the finished call
UserReq == call.reqs[CHOOSE i \in 1..Len(call.reqs) : call.reqs[i].kind = "user"]

\* C11: a get_buoy_ids that returns (alone or as the last step of __init__)
\* leaves self.buoy_ids equal to the list of the /user response: no id
\* that the response does not hold is kept, so a second call answered with
\* the same list leaves the same list.
C11_LoadOverwrites ==
  (/\ call.op \in {"get_buoy_ids", "__init__"}
   /\ call.out = Returned)
  => /\ Count(call.reqs, "user") = 1
     /\ UserReq.resp.kind = "ok"
     /\ buoy_ids = UserReq.resp.ids
     /\ Range(buoy_ids) \subseteq Range(UserReq.resp.ids)

\* a reload on a live object answered with a list of one id
C11_Witness ==
  /\ call.op = "get_buoy_ids"
  /\ call.out = Returned
  /\ Len(UserReq.resp.ids) = 1
  /\ buoy_ids = UserReq.resp.ids

FleetOp == call.op \in {"build_historical_df", "build_current_df"}

\* C12: a build_historical_df or build_current_df that returns has written
\* its artifact and issued exactly one logout request, and that request is
\* the last one of the call: every status and reports request precedes it.
C12_OneLogoutLast ==
  (FleetOp /\ call.out = Returned)
  => /\ saved # <<>>
     /\ Count(call.reqs, "logout") = 1
     /\ call.reqs[Len(call.reqs)].kind = "logout"
     /\ \A i \in 1..(Len(call.reqs) - 1) : call.reqs[i].kind \in {"details", "reports"}
     /\ loggedOut

\* a snapshot of two buoys: two status requests, then the logout
C12_Witness ==
  /\ call.op = "build_current_df"
  /\ call.out = Returned
  /\ Len(buoy_ids) = 2
  /\ Len(call.reqs) = 3
  /\ call.reqs[1].kind = "details" /\ call.reqs[2].kind = "details"
  /\ call.reqs[3].kind = "logout"

\* a historical table of two buoys, the logout last
C12_WitnessHistorical ==
  /\ call.op = "build_historical_df"
  /\ call.out = Returned
  /\ Len(call.ids) = 2
  /\ Count(call.reqs, "reports") = 2
  /\ call.reqs[Len(call.reqs)].kind = "logout"

QueryOp == {"get_current_status", "get_historical_data", "create_buoy_df"}

\* C13: a call of get_current_status, get_historical_data or create_buoy_df,
\* however it ends, leaves self._token, self._header and self.buoy_ids as
\* they were before the call.
C13_QueriesKeepSession ==
  [][call'.op \in QueryOp =>
       /\ token' = token
       /\ header' = header
       /\ buoy_ids' = buoy_ids
       /\ attrs' = attrs]_vars

\* a create_buoy_df that failed on its second status request, the session
\* still holding its token and its two buoys
C13_Witness ==
  /\ call.op = "create_buoy_df"
  /\ call.out = UnboundLocalError
  /\ Len(call.reqs) = 2
  /\ token \in Tokens
  /\ Len(buoy_ids) = 2

\* a get_current_status that returned None, the session as before
C13_WitnessStatus ==
  /\ call.op = "get_current_status"
  /\ call.out = Returned /\ ret = NoneVal
  /\ token \in Tokens
  /\ buoy_ids # <<>>

\* the indices of the requests of the finished call that name buoy b
RequestsFor(b) == {i \in 1..Len(call.reqs) : call.reqs[i].buoy = b}

\* C14 (the claim as stated): a build_historical_df that returns has issued
\* exactly two requests for every buoy of its list, one status request and
\* one reports request, and the requests of one buoy all precede those of
\* the next buoy of the list.
C14_TwoRequestsPerBuoy ==
  (call.op = "build_historical_df" /\ call.out = Returned)
  => /\ \A k \in 1..Len(call.ids) :
          /\ Cardinality(RequestsFor(call.ids[k])) = 2
          /\ Cardinality({i \in RequestsFor(call.ids[k]) :
                            call.reqs[i].kind = "details"}) = 1
          /\ Cardinality({i \in RequestsFor(call.ids[k]) :
                            call.reqs[i].kind = "reports"}) = 1
     /\ \A k, l \in 1..Len(call.ids) :
          k < l => \A i \in RequestsFor(call.ids[k]), j \in RequestsFor(call.ids[l]) : i < j

\* C15: get_historical_data for a buoy outside self.buoy_ids issues no
\* request.  For a buoy inside, it issues one status request for that buoy
\* first and at most one reports request; when the status response is OK it
\* issues exactly one reports request, for the same buoy, after the status
\* request, naming all the variables at once (the requested ones, or the
\* advertised ones when none is requested); otherwise it issues none.
C15_OneReportsRequest ==
  call.op = "get_historical_data" =>
    /\ call.buoy \notin Range(buoy_ids) => call.reqs = <<>> /\ call.out = ScopeError
    /\ call.buoy \in Range(buoy_ids) =>
         /\ Count(call.reqs, "reports") <= 1
         /\ Count(call.reqs, "details") = 1
         /\ call.reqs[1].kind = "details" /\ call.reqs[1].buoy = call.buoy
         /\ call.reqs[1].resp.kind # "ok" => Len(call.reqs) = 1
         /\ call.reqs[1].resp.kind = "ok" =>
              /\ Len(call.reqs) = 2
              /\ call.reqs[2].kind = "reports" /\ call.reqs[2].buoy = call.buoy
              /\ call.reqs[2].series = IF call.series = {} THEN call.reqs[1].resp.avail
                                                           ELSE call.series

\* three variables requested: one status request, one reports request
C15_Witness ==
  /\ call.op = "get_historical_data"
  /\ call.series = Vars
  /\ Len(call.reqs) = 2
  /\ call.reqs[1].kind = "details"
  /\ call.reqs[2].kind = "reports" /\ call.reqs[2].series = Vars
  /\ call.out = Returned /\ ret # NoneVal

\* an unauthorized buoy: no request
C15_WitnessOutside ==
  /\ call.op = "get_historical_data"
  /\ call.buoy \notin Range(buoy_ids) /\ buoy_ids # <<>>
  /\ call.reqs = <<>>

\* the rows of a table as a set of mappings from column name to value
RowSet(df) == {df.rows[i] : i \in 1..Len(df.rows)}
\* the payload data with its variables listed in the order `order`
Reordered(data, order) ==
  [i \in 1..Len(order) |->
     data[CHOOSE j \in 1..Len(data) : data[j].var = order[i]]]

\* C16: the table create_buoy_df returns has the same set of rows (each a
\* mapping from buoy_id, time and the variables' columns to values) as the
\* table it builds from the same payload with the variables listed in any
\* other order; the column order alone follows the payload's order.
C16_OrderIndependentContent ==
  (/\ call.op = "create_buoy_df"
   /\ call.out = Returned
   /\ ret.tag = "table")
  => LET data == ReportsReq.resp.data
     IN \A o \in VarOrders({data[i].var : i \in 1..Len(data)}) :
          LET other == final_df(Reordered(data, o), call.buoy)
          IN /\ RowSet(other) = RowSet(ret)
             /\ Range(other.cols) = Range(ret.cols)
             /\ other.cols = <<"buoy_id", "time">>
                              \o [i \in 1..Len(o) |-> ColumnOf(o[i])]

\* a payload that lists wind_speed (sampled at time 2) before wave_height
\* (sampled at both times): the joined table has the one row of time 2
C16_Witness ==
  /\ call.op = "create_buoy_df"
  /\ call.out = Returned
  /\ ret.tag = "table"
  /\ Len(ReportsReq.resp.data) = 3
  /\ ReportsReq.resp.data[1].var = "wind_speed"
  /\ ReportsReq.resp.data[3].var = "wave_height"
  /\ TimesOf(ReportsReq.resp.data, "wind_speed") = {2}
  /\ TimesOf(ReportsReq.resp.data, "wave_height") = {1, 2}
  /\ Len(ret.rows) = 1
  /\ ret.cols = <<"buoy_id", "time", "wind_speed", "buoy_lat", "wave_height">>

\* C17: build_current_df issues its status requests for the ids of
\* self.buoy_ids in list order, at most one for each and none for any other
\* id, and never fails a scope check; a run that returns has issued exactly
\* one status request for every id of the list and returns (and writes) a
\* table with exactly one row per buoy, in list order.
C17_OneStatusPerAuthorizedBuoy ==
  call.op = "build_current_df" =>
    LET d == Count(call.reqs, "details")
    IN /\ d <= Len(buoy_ids)
       /\ \A i \in 1..d : /\ call.reqs[i].kind = "details"
                            /\ call.reqs[i].buoy = buoy_ids[i]
       /\ Count(call.reqs, "reports") = 0
       /\ call.out # ScopeError
       /\ call.out = Returned =>
            /\ d = Len(buoy_ids)
            /\ ret.tag = "table"
            /\ Len(ret.rows) = Len(buoy_ids)
            /\ \A i \in 1..Len(buoy_ids) : ret.rows[i].buoy_id = buoy_ids[i]
            /\ saved[1].table = ret

\* the authorized list <<2, 1>>: requests for 2 then 1, rows for 2 then 1
C17_Witness ==
  /\ call.op = "build_current_df"
  /\ call.out = Returned
  /\ buoy_ids = <<2, 1>>
  /\ call.reqs[1].buoy = 2 /\ call.reqs[2].buoy = 1
  /\ Len(ret.rows) = 2

\* the requests of the finished call whose fetch failed: a status or reports
\* request answered non-OK, or on which the transport raised
FailedFetches ==
  {i \in 1..Len(call.reqs) :
     /\ call.reqs[i].kind \in {"details", "reports"}
     /\ call.reqs[i].resp.kind \in {"bad", "exc"}}

\* C18 (the claim as stated): when a fetch of build_historical_df or
\* build_current_df fails, the operation ends in an error, writes no
\* artifact, returns no table, and issues no request after the failed one
\* (none for a later buoy, no logout).
C18_FailedFetchAbortsBatch ==
  (FleetOp /\ FailedFetches # {})
  => /\ call.out # Returned
     /\ saved = <<>>
     /\ ret = NoneVal
     /\ \A i \in FailedFetches : Len(call.reqs) = i

\* the scope-enforced calls
ScopeEnforced ==
  \/ call.op \in {"get_historical_data", "create_buoy_df"}
  \/ call.op = "get_current_status" /\ call.check

\* C19: a get_buoy_ids that fails raises and leaves self.buoy_ids empty;
\* and while self.buoy_ids is empty, every get_current_status with the
\* scope check, get_historical_data and create_buoy_df ends with the scope
\* error without a request.
C19_FailedLoadEmptiesScope ==
  /\ (/\ call.op \in {"get_buoy_ids", "__init__"}
      /\ Count(call.reqs, "user") = 1
      /\ UserReq.resp.kind # "ok")
     => /\ call.out \in {ScopeFetchError, UnboundLocalError}
        /\ buoy_ids = <<>>
  /\ (call.op = "get_buoy_ids" /\ call.out # Returned) => buoy_ids = <<>>
  /\ (phase = "ready" /\ buoy_ids = <<>> /\ ScopeEnforced)
     => call.out = ScopeError /\ call.reqs = <<>>

\* a reload on a live object that failed
C19_Witness ==
  /\ phase = "ready"
  /\ call.op = "get_buoy_ids"
  /\ call.out = ScopeFetchError
  /\ buoy_ids = <<>>

\* a scope-enforced call on the emptied scope
C19_WitnessLater ==
  /\ phase = "ready"
  /\ buoy_ids = <<>>
  /\ call.op = "create_buoy_df"
  /\ call.out = ScopeError /\ call.reqs = <<>>

\* C20: a build_historical_df or build_current_df that ends in an error
\* other than the failure of its own logout request (the empty request, the
\* scope error, the invalid variable, a failed fetch or what follows from
\* it) has issued no logout request and has not called logout(), has
\* written nothing, and leaves self._token, self._header and self.buoy_ids
\* as they were.
C20_NoLogoutOnError ==
  [][(/\ call'.op \in {"build_historical_df", "build_current_df"}
      /\ call'.out \notin {Returned, LogoutError})
     => /\ Count(call'.reqs, "logout") = 0
        /\ loggedOut' = loggedOut
        /\ saved' = <<>>
        /\ token' = token
        /\ header' = header
        /\ buoy_ids' = buoy_ids]_vars

\* a historical run of two buoys whose second buoy's reports fetch failed:
\* no logout request, the session never logged out
C20_Witness ==
  /\ call.op = "build_historical_df"
  /\ Len(call.ids) = 2
  /\ call.out = TypeError
  /\ Count(call.reqs, "reports") = 2
  /\ call.reqs[Len(call.reqs)].resp.kind = "bad"
  /\ Count(call.reqs, "logout") = 0
  /\ ~loggedOut
  /\ token \in Tokens

\* a historical run ended by the scope error
C20_WitnessScope ==
  /\ call.op = "build_historical_df"
  /\ call.out = ScopeError
  /\ Count(call.reqs, "details") > 0
  /\ Count(call.reqs, "logout") = 0
  /\ ~loggedOut

\* a snapshot run ended by a failed fetch
C20_WitnessCurrent ==
  /\ call.op = "build_current_df"
  /\ call.out = UnboundLocalError
  /\ Count(call.reqs, "logout") = 0
  /\ ~loggedOut

\* C9: build_historical_df with an empty list of buoy ids raises the
\* empty-request error before any request (no status, reports or logout
\* request) and without writing an artifact.
C9_EmptyRequestBeforeAnything ==
  (call.op = "build_historical_df" /\ call.ids = <<>>)
  => /\ call.out = EmptyRequestError
     /\ call.reqs = <<>>
     /\ saved = <<>>

C9_Witness ==
  /\ call.op = "build_historical_df"
  /\ call.ids = <<>>
  /\ call.out = EmptyRequestError
  /\ buoy_ids # <<>>
====
